---- MODULE Spec2Model ----
(***************************************************************************)
(* Model of app.py: the two mock tools (get_heritage_text_record,          *)
(* generate_visualization_data), the registry available_functions and the  *)
(* bounded tool-calling loop run_master_agent.                             *)
(*                                                                         *)
(* Text is modelled as a sequence of tokens so that Python's substring     *)
(* test ("x" in s) is a real search.  The Korean literals are romanised:   *)
(*   "홍길동" = <<"hong","gil","dong">>   "단색화" = <<"dan","saek","hwa">>    *)
(*   "연표" = "yeonpyo"   "차트" = "chart"   "일반 분석" = "ilban_bunseok"      *)
(* A JSON text is either the marker of an undecodable text or an object    *)
(* text: the ordered sequence of its <<key, value>> members.               *)
(***************************************************************************)
EXTENDS Integers, Sequences, FiniteSets, TLC

(***************************************************************************)
(* Bounds of the model and constants of the program                        *)
(***************************************************************************)
\* most tool invocations the model endpoint requests over one run
MaxToolCalls == 4

\* longest text (in tokens) a tool is called with directly
MaxTextLen == 4

\* for i in range(3)
MaxIterations == 3

\* "exhibition_count": 5
ExhibitionCount == 5

None == "None"

(***************************************************************************)
(* Text                                                                    *)
(***************************************************************************)
\* Contains that looks at the start of s only (str.startswith)
Contains_StartsWith(sub, s) ==
    Len(sub) <= Len(s) /\ SubSeq(s, 1, Len(sub)) = sub

\* Python's  sub in s  on strings
Contains(sub, s) ==
    \E k \in 0..(Len(s) - Len(sub)) : SubSeq(s, k + 1, k + Len(sub)) = sub

HongGilDong == <<"hong", "gil", "dong">>

Dansaekhwa == <<"dan", "saek", "hwa">>

\* the literal text_record of the one hard-coded record (abridged to its
\* clauses; it names the artist and the monochrome technique)
TextRecord ==
    <<"hong", "gil", "dong", "jakga", "1920", "ilbon", "yuhak",
      "silheomjeogin", "dan", "saek", "hwa", "mapo">>

\* f"'{structure_name}'에 대한 상세 기록을 찾을 수 없습니다."
NotFoundText(structure_name) ==
    <<"'">> \o structure_name \o <<"'", "e_daehan", "girogeul", "chajeul_su_eopseumnida">>

VisualizationFailedText == <<"sigakhwa", "deiteoreul", "saengseonghal_su_eopseumnida">>

(***************************************************************************)
(* JSON                                                                    *)
(***************************************************************************)
MalformedJSON == [kind |-> "malformed", members |-> <<>>]

\* json.dumps of a dict literal: the members in insertion order
json_dumps(members) == [kind |-> "object", members |-> members]

JSONDecodable(text) == text.kind = "object"

\* json.loads of an object text: a dict; a repeated key keeps its last value
json_loads(text) ==
    LET ms == text.members
        keys == {ms[k][1] : k \in 1..Len(ms)}
        last(key) == CHOOSE k \in 1..Len(ms) :
                        /\ ms[k][1] = key
                        /\ \A j \in (k + 1)..Len(ms) : ms[j][1] # key
    IN  [key \in keys |-> ms[last(key)][2]]

\* dict.get(key, default)
DictGet(d, key, default) == IF key \in DOMAIN d THEN d[key] ELSE default

\* d[key] = value
DictSet(d, key, value) ==
    [k \in (DOMAIN d) \cup {key} |-> IF k = key THEN value ELSE d[k]]

(***************************************************************************)
(* The tools                                                               *)
(***************************************************************************)
get_heritage_text_record(location, structure_name) ==
    IF Contains(HongGilDong, structure_name)
    THEN json_dumps(<< <<"status", "success">>,
                       <<"search_term", structure_name>>,
                       <<"text_record", TextRecord>>,
                       <<"exhibition_count", ExhibitionCount>> >>)
    ELSE json_dumps(<< <<"status", "error">>,
                       <<"text_record", NotFoundText(structure_name)>> >>)

TimelineData ==
    << [year |-> 1920, event |-> <<"ilbon", "yuhak">>],
       [year |-> 1925, event |-> <<"dan", "saek", "hwa", "silheom">>],
       [year |-> 1930, event |-> <<"mapo", "jakpum", "balpyo">>],
       [year |-> 1935, event |-> <<"chaesaekhwa", "jungdan">>] >>

\* generate_visualization_data with  or  in place of  and
generate_visualization_data_Or(data, visualization_type) ==
    IF Contains(Dansaekhwa, data) \/ visualization_type = "timeline"
    THEN json_dumps(<< <<"status", "success">>,
                       <<"visualization_type", "yeonpyo">>,
                       <<"data", TimelineData>> >>)
    ELSE json_dumps(<< <<"status", "error">>,
                       <<"message", VisualizationFailedText>> >>)

generate_visualization_data(data, visualization_type) ==
    IF Contains(Dansaekhwa, data) /\ visualization_type = "timeline"
    THEN json_dumps(<< <<"status", "success">>,
                       <<"visualization_type", "yeonpyo">>,
                       <<"data", TimelineData>> >>)
    ELSE json_dumps(<< <<"status", "error">>,
                       <<"message", VisualizationFailedText>> >>)

\* the registry: the names it holds and the parameters of each callable
available_functions == {"get_heritage_text_record", "generate_visualization_data"}

Parameters(function_name) ==
    IF function_name = "get_heritage_text_record"
    THEN {"location", "structure_name"}
    ELSE {"data", "visualization_type"}

\* CallRaises of callables that accept any further keyword (**kwargs)
CallRaises_AcceptsExtraKeywords(function_name, function_args) ==
    \/ function_name \notin available_functions
    \/ ~(Parameters(function_name) \subseteq DOMAIN function_args)

\* available_functions[function_name](**function_args) raises KeyError for an
\* unregistered name and TypeError for a missing or an unexpected keyword
CallRaises(function_name, function_args) ==
    \/ function_name \notin available_functions
    \/ DOMAIN function_args # Parameters(function_name)

CallFunction(function_name, function_args) ==
    IF function_name = "get_heritage_text_record"
    THEN get_heritage_text_record(function_args["location"],
                                  function_args["structure_name"])
    ELSE generate_visualization_data(function_args["data"],
                                     function_args["visualization_type"])

(***************************************************************************)
(* What the environment supplies: the UI's inputs and the model endpoint's *)
(* responses                                                               *)
(***************************************************************************)
\* st.text_input("지역:", "서울 종로")
Locations == {"seoul_jongno"}

\* st.text_input("작가/유산 이름:", "홍길동 작가"): the default, a name with no
\* record, and a name with no record that holds the technique's name
StructureNames ==
    { <<"hong", "gil", "dong", "jakga">>,
      <<"kim", "jakga">>,
      <<"dan", "saek", "hwa", "jakga">> }

\* st.selectbox("분석 시각화 형식:", ['연표', '차트', '일반 분석'])
SelectboxOptions == {"yeonpyo", "chart", "ilban_bunseok"}

\* run_master_agent takes any string as viz_type
VizTypes == {"yeonpyo", "chart", "timeline"}

UserPrompt == "prompt"

\* the text of a model answer
Contents == {"answer_a", "answer_b"}

\* argument texts the model may send: values of its own for every field the
\* loop injects, no members at all, or a text that is no JSON
ModelResearchArguments ==
    json_dumps(<< <<"location", "model_location">>,
                  <<"structure_name", <<"hong", "gil", "dong">> >> >>)

ModelVisualizationArguments ==
    json_dumps(<< <<"data", <<"model", "dan", "saek", "hwa">> >>,
                  <<"visualization_type", "timeline">> >>)

EmptyArguments == json_dumps(<< >>)

ArgumentTexts ==
    {ModelResearchArguments, ModelVisualizationArguments, EmptyArguments, MalformedJSON}

FunctionNames == available_functions \cup {"unregistered_tool"}

\* tool_call.function: a name and an argument text.  The research tool is
\* requested with every argument text (the visualization tool's arguments are
\* keywords it does not take), the visualization tool with values for its
\* own parameters, the unregistered name with an empty object
ToolCallFunctions ==
    [name : {"get_heritage_text_record"}, arguments : ArgumentTexts]
    \cup [name : {"generate_visualization_data"},
          arguments : {ModelVisualizationArguments}]
    \cup [name : FunctionNames \ available_functions, arguments : {EmptyArguments}]

SeqsUpTo(S, n) == UNION {[1..m -> S] : m \in 0..n}

\* the tool_calls of a response: the k-th gets the call identifier first + k
ToolCallLists(first, n) ==
    { [k \in 1..Len(fs) |-> [id |-> first + k, function |-> fs[k]]] :
        fs \in SeqsUpTo(ToolCallFunctions, n) }

(***************************************************************************)
(* run_master_agent                                                        *)
(***************************************************************************)
VARIABLES
    pc,             \* where the run stands
    i,              \* the loop variable of  for i in range(3)
    location, structure_name, viz_type, user_prompt,  \* the arguments of the run
    messages,       \* the Conversation
    tool_results,   \* the Accumulator
    tool_calls,     \* invocations of the current response not yet iterated
    returned,       \* the returned pair <<content, tool_results>>, << >> before
    raised,         \* the exception that ended the run, None otherwise
    requests,       \* history: every client.chat.completions.create call
    dispatched      \* history: every completed call of a registered function

vars == <<pc, i, location, structure_name, viz_type, user_prompt, messages,
          tool_results, tool_calls, returned, raised, requests, dispatched>>

config == <<location, structure_name, viz_type, user_prompt>>

EmptyDict == [k \in {} |-> None]

Init ==
    /\ pc = "request"
    /\ i = 0
    /\ location \in Locations
    /\ structure_name \in StructureNames
    /\ viz_type \in VizTypes
    /\ user_prompt = UserPrompt
    /\ messages = << [role |-> "user", content |-> user_prompt] >>
    /\ tool_results = EmptyDict
    /\ tool_calls = << >>
    /\ returned = << >>
    /\ raised = None
    /\ requests = << >>
    /\ dispatched = << >>

\* invocations the model endpoint may still request in this run
Budget == MaxToolCalls - Len(dispatched)

\* response.choices[0].message of a request that did not raise
ResponseMessages ==
    { [role |-> "assistant", content |-> content, tool_calls |-> calls] :
        content \in Contents \cup {None},
        calls \in ToolCallLists(Len(dispatched), Budget) }

\* a message that requests tools carries no text in the loop's responses
LoopResponseMessages ==
    { m \in ResponseMessages : (m.tool_calls = << >>) = (m.content # None) }

NoResponse == [role |-> "assistant", content |-> None, tool_calls |-> << >>]

\* Request that sends the latest message only, not the Conversation
Request_SendsLastMessageOnly(with_tools, outcome, response_message) ==
    [messages |-> <<messages[Len(messages)]>>, tools |-> with_tools,
     outcome |-> outcome, response |-> response_message]

\* one create call as the history keeps it
Request(with_tools, outcome, response_message) ==
    [messages |-> messages, tools |-> with_tools, outcome |-> outcome,
     response |-> response_message]

\* line 129:  not response_message.tool_calls
NoToolCalls(response_message) == response_message.tool_calls = << >>

\* ReturnValue with a fresh Accumulator in place of the run's
ReturnValue_FreshAccumulator(content, results) == <<content, EmptyDict>>

\* lines 130 and 160: the returned pair
ReturnValue(content, results) == <<content, results>>

\* InjectArguments that gives the visualization tool the record of a lookup of
\* its own in place of the Accumulator's
InjectArguments_LooksUpRecord(function_name, function_args, results, loc, name, viz) ==
    IF function_name = "get_heritage_text_record"
    THEN DictSet(DictSet(function_args, "location", loc), "structure_name", name)
    ELSE IF function_name = "generate_visualization_data"
    THEN LET record == json_loads(get_heritage_text_record(loc, name))["text_record"]
         IN  DictSet(DictSet(function_args, "data", record), "visualization_type", viz)
    ELSE function_args

\* InjectArguments with the injected fields set only when the model left them
\* out (dict.setdefault in place of the assignment)
InjectArguments_KeepsModelValues(function_name, function_args, results, loc, name, viz) ==
    LET SetDefault(d, key, value) == IF key \in DOMAIN d THEN d ELSE DictSet(d, key, value)
    IN  IF function_name = "get_heritage_text_record"
        THEN SetDefault(SetDefault(function_args, "location", loc), "structure_name", name)
        ELSE IF function_name = "generate_visualization_data"
        THEN LET record == DictGet(DictGet(results, "get_heritage_text_record", EmptyDict),
                                   "text_record", << >>)
             IN  SetDefault(SetDefault(function_args, "data", record),
                            "visualization_type", viz)
        ELSE function_args

\* lines 141-150: the arguments after the loop's injection
InjectArguments(function_name, function_args, results, loc, name, viz) ==
    IF function_name = "get_heritage_text_record"
    THEN DictSet(DictSet(function_args, "location", loc), "structure_name", name)
    ELSE IF function_name = "generate_visualization_data"
    THEN LET record == DictGet(DictGet(results, "get_heritage_text_record", EmptyDict),
                               "text_record", << >>)
         IN  DictSet(DictSet(function_args, "data", record), "visualization_type", viz)
    ELSE function_args

\* StoreResult keeping the first result of a tool (first write wins)
StoreResult_FirstWriteWins(results, function_name, function_response) ==
    IF function_name \in DOMAIN results THEN results
    ELSE DictSet(results, function_name, json_loads(function_response))

\* line 155:  tool_results[function_name] = json.loads(function_response)
StoreResult(results, function_name, function_response) ==
    DictSet(results, function_name, json_loads(function_response))

\* line 156: the tool-role message
ToolMessage(tool_call, function_response) ==
    [tool_call_id |-> tool_call.id, role |-> "tool", content |-> function_response]

\* ModelAnswers appending the answer to the Conversation and going round the
\* loop again in place of returning
ModelAnswers_Continues ==
    /\ pc = "request"
    /\ \E response_message \in LoopResponseMessages :
        /\ NoToolCalls(response_message)
        /\ requests' = Append(requests, Request(TRUE, "response", response_message))
        /\ messages' = Append(messages, response_message)
    /\ i' = i + 1
    /\ pc' = IF i + 1 < MaxIterations THEN "request" ELSE "final_request"
    /\ UNCHANGED <<config, tool_results, tool_calls, returned, raised, dispatched>>

\* lines 119-130: a loop request answered without tool calls returns
ModelAnswers ==
    /\ pc = "request"
    /\ \E response_message \in LoopResponseMessages :
        /\ NoToolCalls(response_message)
        /\ requests' = Append(requests, Request(TRUE, "response", response_message))
        /\ returned' = ReturnValue(response_message.content, tool_results)
    /\ pc' = "returned"
    /\ UNCHANGED <<i, config, messages, tool_results, tool_calls, raised, dispatched>>

\* lines 119-133: a loop request answered with tool calls; the response
\* message is appended and the for loop over its tool_calls starts
ModelRequestsTools ==
    /\ pc = "request"
    /\ \E response_message \in LoopResponseMessages :
        /\ ~NoToolCalls(response_message)
        /\ requests' = Append(requests, Request(TRUE, "response", response_message))
        /\ messages' = Append(messages, response_message)
        /\ tool_calls' = response_message.tool_calls
    /\ pc' = "dispatch"
    /\ UNCHANGED <<i, config, tool_results, returned, raised, dispatched>>

\* lines 119 and 159: the endpoint call raises; nothing catches it
ModelRequestFails ==
    /\ pc \in {"request", "final_request"}
    /\ requests' = Append(requests, Request(pc = "request", "raised", NoResponse))
    /\ raised' = "APIError"
    /\ pc' = "failed"
    /\ UNCHANGED <<i, config, messages, tool_results, tool_calls, returned, dispatched>>

\* the arguments line 152 passes for tool_call
PassedArguments(tool_call) ==
    InjectArguments(tool_call.function.name, json_loads(tool_call.function.arguments),
                    tool_results, location, structure_name, viz_type)

\* FunctionResponse of a research tool that counts its calls: the
\* exhibition_count it reports grows with every call made before
FunctionResponse_CountsCalls(tool_call) ==
    LET r == CallFunction(tool_call.function.name, PassedArguments(tool_call))
    IN  json_dumps([k \in DOMAIN r.members |->
                      IF r.members[k][1] = "exhibition_count"
                      THEN <<"exhibition_count", ExhibitionCount + Len(dispatched)>>
                      ELSE r.members[k]])

\* line 152: the text the registered function returns for tool_call
FunctionResponse(tool_call) ==
    CallFunction(tool_call.function.name, PassedArguments(tool_call))

\* DispatchError that also raises on a tool result whose status is "error"
DispatchError_ErrorStatusRaises(tool_call) ==
    IF ~JSONDecodable(tool_call.function.arguments) THEN "JSONDecodeError"
    ELSE IF tool_call.function.name \notin available_functions THEN "KeyError"
    ELSE IF CallRaises(tool_call.function.name, PassedArguments(tool_call))
         THEN "TypeError"
    ELSE IF json_loads(CallFunction(tool_call.function.name,
                                    PassedArguments(tool_call)))["status"] = "error"
         THEN "ToolError"
    ELSE None

\* the exception one pass of the for body raises, None if it completes
DispatchError(tool_call) ==
    IF ~JSONDecodable(tool_call.function.arguments) THEN "JSONDecodeError"
    ELSE IF tool_call.function.name \notin available_functions THEN "KeyError"
    ELSE IF CallRaises(tool_call.function.name, PassedArguments(tool_call))
         THEN "TypeError"
    ELSE None

\* AfterLastCall of a loop that runs once more (range(4))
AfterLastCall_OneMoreRound(iter) ==
    IF iter + 1 < MaxIterations + 1 THEN "request" ELSE "final_request"

\* where the run goes once the for loop over tool_calls is exhausted
AfterLastCall(iter) == IF iter + 1 < MaxIterations THEN "request" ELSE "final_request"

\* DispatchToolCall of a for loop that takes the invocations last to first
DispatchToolCall_LastFirst ==
    /\ pc = "dispatch"
    /\ tool_calls # << >>
    /\ LET tool_call == tool_calls[Len(tool_calls)]
           function_name == tool_call.function.name
       IN  /\ DispatchError(tool_call) = None
           /\ LET function_args == PassedArguments(tool_call)
                  function_response == FunctionResponse(tool_call)
              IN  /\ tool_results' = StoreResult(tool_results, function_name,
                                                 function_response)
                  /\ messages' = Append(messages,
                                        ToolMessage(tool_call, function_response))
                  /\ dispatched' = Append(dispatched,
                                    [id |-> tool_call.id, name |-> function_name,
                                     args |-> function_args,
                                     response |-> function_response])
    /\ tool_calls' = SubSeq(tool_calls, 1, Len(tool_calls) - 1)
    /\ IF Len(tool_calls) = 1
       THEN /\ i' = i + 1
            /\ pc' = AfterLastCall(i)
       ELSE UNCHANGED <<i, pc>>
    /\ UNCHANGED <<config, returned, raised, requests>>

\* lines 135-156: one pass of the for body that completes
DispatchToolCall ==
    /\ pc = "dispatch"
    /\ tool_calls # << >>
    /\ LET tool_call == Head(tool_calls)
           function_name == tool_call.function.name
       IN  /\ DispatchError(tool_call) = None
           /\ LET function_args == PassedArguments(tool_call)
                  function_response == FunctionResponse(tool_call)
              IN  /\ tool_results' = StoreResult(tool_results, function_name,
                                                 function_response)
                  /\ messages' = Append(messages,
                                        ToolMessage(tool_call, function_response))
                  /\ dispatched' = Append(dispatched,
                                    [id |-> tool_call.id, name |-> function_name,
                                     args |-> function_args,
                                     response |-> function_response])
    /\ tool_calls' = Tail(tool_calls)
    /\ IF Tail(tool_calls) = << >>
       THEN /\ i' = i + 1
            /\ pc' = AfterLastCall(i)
       ELSE UNCHANGED <<i, pc>>
    /\ UNCHANGED <<config, returned, raised, requests>>

\* DispatchFails that notes the exception and tries the same invocation again
DispatchFails_Retries ==
    /\ pc = "dispatch"
    /\ tool_calls # << >>
    /\ DispatchError(Head(tool_calls)) # None
    /\ raised' = DispatchError(Head(tool_calls))
    /\ UNCHANGED <<pc, i, config, messages, tool_results, tool_calls, returned,
                   requests, dispatched>>

\* DispatchFails with the exception caught: the invocation is skipped and the
\* for loop goes on
DispatchFails_SkipsCall ==
    /\ pc = "dispatch"
    /\ tool_calls # << >>
    /\ DispatchError(Head(tool_calls)) # None
    /\ tool_calls' = Tail(tool_calls)
    /\ IF Tail(tool_calls) = << >>
       THEN /\ i' = i + 1
            /\ pc' = AfterLastCall(i)
       ELSE UNCHANGED <<i, pc>>
    /\ UNCHANGED <<config, messages, tool_results, returned, raised, requests,
                   dispatched>>

\* lines 137 and 152: one pass of the for body that raises
DispatchFails ==
    /\ pc = "dispatch"
    /\ tool_calls # << >>
    /\ DispatchError(Head(tool_calls)) # None
    /\ raised' = DispatchError(Head(tool_calls))
    /\ pc' = "failed"
    /\ UNCHANGED <<i, config, messages, tool_results, tool_calls, returned,
                   requests, dispatched>>

\* FinalRequest that looks at the response as the loop does: a response with
\* tool calls is appended and its calls are dispatched
FinalRequest_InspectsToolCalls ==
    /\ pc = "final_request"
    /\ \E response_message \in ResponseMessages :
        /\ requests' = Append(requests, Request(FALSE, "response", response_message))
        /\ IF NoToolCalls(response_message)
           THEN /\ returned' = ReturnValue(response_message.content, tool_results)
                /\ pc' = "returned"
                /\ UNCHANGED <<messages, tool_calls>>
           ELSE /\ messages' = Append(messages, response_message)
                /\ tool_calls' = response_message.tool_calls
                /\ pc' = "dispatch"
                /\ UNCHANGED returned
    /\ UNCHANGED <<i, config, tool_results, raised, dispatched>>

\* lines 159-160: the request after the loop, sent without tools; its
\* response's content is returned whatever else the response holds
FinalRequest ==
    /\ pc = "final_request"
    /\ \E response_message \in ResponseMessages :
        /\ requests' = Append(requests, Request(FALSE, "response", response_message))
        /\ returned' = ReturnValue(response_message.content, tool_results)
    /\ pc' = "returned"
    /\ UNCHANGED <<i, config, messages, tool_results, tool_calls, raised, dispatched>>

Next ==
    \/ ModelAnswers
    \/ ModelRequestsTools
    \/ ModelRequestFails
    \/ DispatchToolCall
    \/ DispatchFails
    \/ FinalRequest

Spec == Init /\ [][Next]_vars

(***************************************************************************)
(* The tools called directly, outside a run: one call of a registered      *)
(* function with arguments drawn from bounded sets of texts                *)
(***************************************************************************)
\* subject names: every text of up to MaxTextLen tokens over the tokens of
\* the hard-coded name and one other
SubjectNames == SeqsUpTo({"hong", "gil", "dong", "kim"}, MaxTextLen)

\* source texts: likewise over the tokens of the technique's name
SourceTexts == SeqsUpTo({"dan", "saek", "hwa", "mapo"}, MaxTextLen)

DirectLocations == {"seoul_jongno", ""}

DirectCalls ==
    { [id |-> 0,
       function |-> [name |-> "get_heritage_text_record",
                     arguments |-> json_dumps(<< <<"location", loc>>,
                                                 <<"structure_name", name>> >>)]] :
        loc \in DirectLocations, name \in SubjectNames }
    \cup
    { [id |-> 0,
       function |-> [name |-> "generate_visualization_data",
                     arguments |-> json_dumps(<< <<"data", data>>,
                                                 <<"visualization_type", kind>> >>)]] :
        data \in SourceTexts, kind \in VizTypes }

ToolInit ==
    /\ pc = "direct_call"
    /\ i = 0
    /\ location = ""
    /\ structure_name = << >>
    /\ viz_type = ""
    /\ user_prompt = ""
    /\ messages = << >>
    /\ tool_results = EmptyDict
    /\ tool_calls \in {<<c>> : c \in DirectCalls}
    /\ returned = << >>
    /\ raised = None
    /\ requests = << >>
    /\ dispatched = << >>

\* available_functions[function_name](**function_args) with the arguments as
\* given: no injection, no loop
DirectCall ==
    /\ pc = "direct_call"
    /\ LET tool_call == Head(tool_calls)
           function_name == tool_call.function.name
           function_args == json_loads(tool_call.function.arguments)
       IN  IF CallRaises(function_name, function_args)
           THEN /\ raised' = "TypeError"
                /\ pc' = "failed"
                /\ UNCHANGED dispatched
           ELSE /\ dispatched' = Append(dispatched,
                                    [id |-> tool_call.id, name |-> function_name,
                                     args |-> function_args,
                                     response |-> CallFunction(function_name,
                                                               function_args)])
                /\ pc' = "called"
                /\ UNCHANGED raised
    /\ tool_calls' = Tail(tool_calls)
    /\ UNCHANGED <<i, config, messages, tool_results, returned, requests>>

ToolNext == DirectCall

ToolSpec == ToolInit /\ [][ToolNext]_vars

(***************************************************************************)
(* Properties                                                              *)
(***************************************************************************)
Research == "get_heritage_text_record"

Visualization == "generate_visualization_data"

IsAssistant(m) == m.role = "assistant"

IsTool(m) == m.role = "tool"

\* the rounds so far in which the model requested tools
ToolRounds == Len(SelectSeq(messages, IsAssistant))

LastRequest == requests[Len(requests)]

\* the step is a create call that returned a response
RequestStep(with_tools) ==
    /\ Len(requests') = Len(requests) + 1
    /\ requests'[Len(requests')].tools = with_tools
    /\ requests'[Len(requests')].outcome = "response"

\* the step completes the call of a registered function
DispatchStep == Len(dispatched') = Len(dispatched) + 1

\* a run that has returned or failed takes no further step
Ended == pc \in {"returned", "failed"}

\* every invocation the model has requested so far
RequestedCalls ==
    UNION { {requests[n].response.tool_calls[k] :
                k \in DOMAIN requests[n].response.tool_calls} : n \in DOMAIN requests }

\* the text record the visualization tool is to be given in this state
CurrentTextRecord ==
    IF Research \in DOMAIN tool_results THEN tool_results[Research]["text_record"]
    ELSE << >>

Status(function_response) == json_loads(function_response)["status"]

\* C1: a run has at most 3 rounds in which the model requests tools, makes at
\* most 4 model requests, declares the tools in exactly the first 3 of them,
\* and a run that returns after 3 tool rounds has made exactly one further
\* request, without tool declarations, after three requests that were each
\* answered with tool calls.
C1_AtMostThreeToolRounds ==
    /\ ToolRounds <= 3
    /\ Len(requests) <= 4
    /\ \A k \in DOMAIN requests : requests[k].tools <=> k <= 3
    /\ Len(requests) = 4 =>
          \A k \in 1..3 : /\ requests[k].outcome = "response"
                          /\ requests[k].response.tool_calls # << >>
    /\ (pc = "returned" /\ ToolRounds = 3) =>
          /\ Len(requests) = 4
          /\ ~LastRequest.tools

C1_Witness ==
    /\ pc = "returned"
    /\ ToolRounds = 3
    /\ Len(requests) = 4
    /\ Len(dispatched) > 3

\* C2: every completed dispatch passes the injected values: the research tool
\* gets the run's location and structure_name, the visualization tool gets the
\* text_record of the research result in the Accumulator at that moment (the
\* empty text if there is none) and the run's viz_type; the tool's result is
\* the one these values give, whatever the model supplied.
C2_InjectedArgumentsReachTool ==
    [][(pc = "dispatch" /\ tool_calls # << >> /\ DispatchStep) =>
        LET tool_call == Head(tool_calls)
            d == dispatched'[Len(dispatched')]
        IN  /\ d.id = tool_call.id
            /\ d.name = tool_call.function.name
            /\ d.name = Research =>
                  /\ d.args["location"] = location
                  /\ d.args["structure_name"] = structure_name
                  /\ d.response = get_heritage_text_record(location, structure_name)
            /\ d.name = Visualization =>
                  /\ d.args["data"] = CurrentTextRecord
                  /\ d.args["visualization_type"] = viz_type
                  /\ d.response = generate_visualization_data(CurrentTextRecord, viz_type)
      ]_vars

\* both tools were called with model-supplied values that would have changed
\* their results
C2_Witness ==
    /\ \E k \in DOMAIN dispatched :
        /\ dispatched[k].name = Research
        /\ [id |-> dispatched[k].id,
            function |-> [name |-> Research, arguments |-> ModelResearchArguments]]
              \in RequestedCalls
        /\ Status(dispatched[k].response) = "error"
    /\ \E k \in DOMAIN dispatched :
        /\ dispatched[k].name = Visualization
        /\ [id |-> dispatched[k].id,
            function |-> [name |-> Visualization,
                          arguments |-> ModelVisualizationArguments]]
              \in RequestedCalls
        /\ Status(dispatched[k].response) = "error"
        /\ viz_type # "timeline"

\* C3: if the first response of the run has no tool calls, the run has
\* returned that response's text with an empty Accumulator, has made exactly
\* one model request and has executed no tool.
C3_FirstAnswerReturnsEmptyAccumulator ==
    (/\ requests # << >>
     /\ requests[1].outcome = "response"
     /\ requests[1].response.tool_calls = << >>) =>
        /\ pc = "returned"
        /\ returned = <<requests[1].response.content, EmptyDict>>
        /\ Len(requests) = 1
        /\ dispatched = << >>
        /\ tool_results = EmptyDict

C3_Witness ==
    /\ pc = "returned"
    /\ Len(requests) = 1
    /\ returned = <<"answer_a", EmptyDict>>

\* C4: a loop request answered without tool calls ends the run in that step:
\* the response's text is returned with the Accumulator as it stands, the
\* Conversation is left as it was, and a run that has returned takes no
\* further step (no request, no dispatch).
C4_AnswerTerminatesAtOnce ==
    [][/\ (pc = "request" /\ RequestStep(TRUE)
           /\ requests'[Len(requests')].response.tool_calls = << >>) =>
              /\ pc' = "returned"
              /\ returned' = <<requests'[Len(requests')].response.content, tool_results>>
              /\ messages' = messages
              /\ tool_results' = tool_results
              /\ dispatched' = dispatched
       /\ pc = "returned" => UNCHANGED vars
      ]_vars

\* an answer in the third iteration, returned with a non-empty Accumulator
C4_Witness ==
    /\ pc = "returned"
    /\ i = 2
    /\ Len(requests) = 3
    /\ tool_results # EmptyDict
    /\ returned = <<LastRequest.response.content, tool_results>>

\* C5: the request after the loop carries the Conversation and no tool
\* declarations; its response's content is returned with the Accumulator, and
\* tool calls in that response change nothing: no dispatch, the Accumulator
\* and the Conversation stay as they were, and the run has ended.
C5_FinalResponseNotInspected ==
    [][(pc = "final_request" /\ Len(requests') = Len(requests) + 1
        /\ requests'[Len(requests')].outcome = "response") =>
          LET r == requests'[Len(requests')]
          IN  /\ ~r.tools
              /\ r.messages = messages
              /\ pc' = "returned"
              /\ returned' = <<r.response.content, tool_results>>
              /\ messages' = messages
              /\ tool_results' = tool_results
              /\ dispatched' = dispatched
              /\ tool_calls' = << >>
      ]_vars

\* the final response asked for a tool and the run returned all the same
C5_Witness ==
    /\ pc = "returned"
    /\ ~LastRequest.tools
    /\ LastRequest.response.tool_calls # << >>
    /\ LastRequest.messages = messages
    /\ Len(SelectSeq(messages, IsTool)) = Len(dispatched)

\* C6: the Accumulator holds exactly one entry for each tool dispatched so far,
\* the decoded result of that tool's latest dispatch, and the Conversation
\* holds one tool-role message for each dispatch, in dispatch order.
C6_AccumulatorLastWriteWins ==
    /\ DOMAIN tool_results = {dispatched[k].name : k \in DOMAIN dispatched}
    /\ \A k \in DOMAIN dispatched :
          (\A j \in (k + 1)..Len(dispatched) : dispatched[j].name # dispatched[k].name)
             => tool_results[dispatched[k].name] = json_loads(dispatched[k].response)
    /\ LET tool_messages == SelectSeq(messages, IsTool)
       IN  /\ Len(tool_messages) = Len(dispatched)
           /\ \A k \in DOMAIN dispatched :
                 /\ tool_messages[k].content = dispatched[k].response
                 /\ tool_messages[k].tool_call_id = dispatched[k].id

\* one tool dispatched twice with different results
C6_Witness ==
    \E j, k \in DOMAIN dispatched :
        /\ j < k
        /\ dispatched[j].name = dispatched[k].name
        /\ dispatched[j].response # dispatched[k].response
        /\ tool_results[dispatched[k].name] = json_loads(dispatched[k].response)
        /\ Len(SelectSeq(messages, IsTool)) > 2

\* the run dispatched the research tool and, later, the visualization tool
ResearchThenVisualization ==
    \E j, k \in DOMAIN dispatched :
        /\ j < k
        /\ dispatched[j].name = Research
        /\ dispatched[k].name = Visualization

\* C7: scenario A.  A run whose structure_name matches the record and whose
\* viz_type is the UI's timeline option ("연표"), in which the research tool
\* and afterwards the visualization tool were dispatched, returns an
\* Accumulator with a success result for both tools, the visualization
\* entries starting at the earliest year and ending at the latest.
C7_ScenarioA ==
    (/\ pc = "returned"
     /\ Contains(HongGilDong, structure_name)
     /\ viz_type = "yeonpyo"
     /\ ResearchThenVisualization) =>
        /\ tool_results[Research]["status"] = "success"
        /\ tool_results[Visualization]["status"] = "success"
        /\ LET data == tool_results[Visualization]["data"]
           IN  \A k \in DOMAIN data : /\ data[1].year <= data[k].year
                                      /\ data[k].year <= data[Len(data)].year

\* C8: scenario B.  In a run whose structure_name matches no record every
\* research dispatch returns status=error, and every visualization dispatch
\* that follows one is passed the empty text as data and returns
\* status=error, whatever viz_type is.
C8_ScenarioB ==
    ~Contains(HongGilDong, structure_name) =>
        \A k \in DOMAIN dispatched :
            /\ dispatched[k].name = Research =>
                  Status(dispatched[k].response) = "error"
            /\ (/\ dispatched[k].name = Visualization
                /\ \E j \in 1..(k - 1) : dispatched[j].name = Research) =>
                  /\ dispatched[k].args["data"] = << >>
                  /\ Status(dispatched[k].response) = "error"

\* the invocation's argument text is no JSON, or its name is not registered
MalformedOrUnregistered(tool_call) ==
    \/ tool_call.function.arguments = MalformedJSON
    \/ tool_call.function.name \notin {Research, Visualization}

\* C9: when the invocation the for loop comes to has a malformed argument
\* text or an unregistered name, the step ends the run as failed: nothing is
\* returned, no tool is called, the rest of the turn's invocations stay
\* unexecuted, no request is made; and a failed run takes no further step.
C9_MalformedCallIsFatal ==
    [][/\ (pc = "dispatch" /\ tool_calls # << >>
           /\ MalformedOrUnregistered(Head(tool_calls))) =>
              /\ pc' = "failed"
              /\ raised' \in {"JSONDecodeError", "KeyError"}
              /\ returned' = << >>
              /\ dispatched' = dispatched
              /\ requests' = requests
              /\ messages' = messages
              /\ tool_results' = tool_results
       /\ pc = "failed" => UNCHANGED vars
      ]_vars

\* a run that failed on such an invocation after a completed dispatch, with
\* another invocation of the same turn left behind it
C9_Witness ==
    /\ pc = "failed"
    /\ raised \in {"JSONDecodeError", "KeyError"}
    /\ MalformedOrUnregistered(Head(tool_calls))
    /\ Len(tool_calls) >= 2
    /\ dispatched # << >>
    /\ returned = << >>

\* the invocation the for loop comes to completes with a status=error result
ErrorResultNext ==
    /\ pc = "dispatch"
    /\ tool_calls # << >>
    /\ JSONDecodable(Head(tool_calls).function.arguments)
    /\ Head(tool_calls).function.name \in {Research, Visualization}
    /\ ~CallRaises(Head(tool_calls).function.name, PassedArguments(Head(tool_calls)))
    /\ Status(CallFunction(Head(tool_calls).function.name,
                           PassedArguments(Head(tool_calls)))) = "error"

\* C10: a tool result with status=error does not fail the run: the step
\* stores the decoded result in the Accumulator under the tool's name, appends
\* it to the Conversation as the tool-role message of that call, and goes on
\* to the next invocation of the turn or, after the last, to the next request.
C10_ErrorResultIsData ==
    [][ErrorResultNext =>
        LET tool_call == Head(tool_calls)
            function_response == CallFunction(tool_call.function.name,
                                              PassedArguments(tool_call))
        IN  /\ raised' = None
            /\ tool_call.function.name \in DOMAIN tool_results'
            /\ tool_results'[tool_call.function.name] = json_loads(function_response)
            /\ tool_results'[tool_call.function.name]["status"] = "error"
            /\ messages' = Append(messages, [tool_call_id |-> tool_call.id,
                                             role |-> "tool",
                                             content |-> function_response])
            /\ tool_calls' = Tail(tool_calls)
            /\ IF Tail(tool_calls) # << >> THEN pc' = "dispatch"
               ELSE pc' \in {"request", "final_request"}
      ]_vars

\* a run that went on to a next invocation and to a next request after
\* status=error results, and returned
C10_Witness ==
    /\ pc = "returned"
    /\ Len(requests) >= 2
    /\ \E k \in DOMAIN dispatched :
        /\ Status(dispatched[k].response) = "error"
        /\ k < Len(dispatched)
        /\ dispatched[k].id + 1 = dispatched[k + 1].id
        /\ dispatched[k + 1].id \in
              {c.id : c \in {requests[1].response.tool_calls[n] :
                                n \in DOMAIN requests[1].response.tool_calls}}
        /\ dispatched[k].id \in
              {c.id : c \in {requests[1].response.tool_calls[n] :
                                n \in DOMAIN requests[1].response.tool_calls}}
    /\ \E name \in DOMAIN tool_results : tool_results[name]["status"] = "error"

\* "홍길동" occurs in the text: three consecutive tokens spell it
HasHongGilDong(text) ==
    \E k \in 1..(Len(text) - 2) :
        text[k] = "hong" /\ text[k + 1] = "gil" /\ text[k + 2] = "dong"

\* "단색화" occurs in the text
HasDansaekhwa(text) ==
    \E k \in 1..(Len(text) - 2) :
        text[k] = "dan" /\ text[k + 1] = "saek" /\ text[k + 2] = "hwa"

\* C11: called with any location and any subject name, the research tool does
\* not raise and returns status=success with a non-empty text_record and
\* search_term equal to the subject name exactly when the name contains
\* "홍길동", and status=error otherwise.
C11_ResearchMatchesSubstring ==
    /\ pc # "failed"
    /\ raised = None
    /\ (pc = "called" /\ tool_calls = << >>) => dispatched # << >>
    /\ \A k \in DOMAIN dispatched :
          dispatched[k].name = Research =>
             LET result == json_loads(dispatched[k].response)
                 name == dispatched[k].args["structure_name"]
             IN  IF HasHongGilDong(name)
                 THEN /\ result["status"] = "success"
                      /\ result["text_record"] # << >>
                      /\ result["search_term"] = name
                 ELSE result["status"] = "error"

\* a success for a name that holds "홍길동" after another token, and the call
\* was made with the empty location
C11_Witness ==
    /\ pc = "called"
    /\ dispatched[1].name = Research
    /\ dispatched[1].args["structure_name"] = <<"kim", "hong", "gil", "dong">>
    /\ dispatched[1].args["location"] = ""
    /\ Status(dispatched[1].response) = "success"

\* C12: called with any source text and any visualization kind, the
\* visualization tool returns status=error when the text lacks "단색화" or the
\* kind is not "timeline", and otherwise status=success with entries whose
\* years are non-decreasing.
C12_VisualizationMatchesSubstringAndKind ==
    \A k \in DOMAIN dispatched :
        dispatched[k].name = Visualization =>
           LET result == json_loads(dispatched[k].response)
               text == dispatched[k].args["data"]
               kind == dispatched[k].args["visualization_type"]
           IN  IF ~HasDansaekhwa(text) \/ kind # "timeline"
               THEN result["status"] = "error"
               ELSE /\ result["status"] = "success"
                    /\ Len(result["data"]) > 0
                    /\ \A n \in 1..(Len(result["data"]) - 1) :
                          result["data"][n].year <= result["data"][n + 1].year
                    /\ \A n \in DOMAIN result["data"] :
                          DOMAIN result["data"][n] = {"year", "event"}

\* a success for a text that holds "단색화" after another token
C12_Witness ==
    /\ pc = "called"
    /\ dispatched[1].name = Visualization
    /\ dispatched[1].args["data"] = <<"mapo", "dan", "saek", "hwa">>
    /\ dispatched[1].args["visualization_type"] = "timeline"
    /\ Status(dispatched[1].response) = "success"

IsPrefix(s, t) == Len(s) <= Len(t) /\ SubSeq(t, 1, Len(s)) = s

IsProperPrefix(s, t) == Len(s) < Len(t) /\ SubSeq(t, 1, Len(s)) = s

\* the positions of the assistant messages in the Conversation
AssistantPositions == {p \in DOMAIN messages : messages[p].role = "assistant"}

\* the number of tool-role messages that follow the assistant message at p
\* before the next assistant message
ExecutedAfter(p) ==
    LET later == {q \in AssistantPositions : q > p}
        next == IF later = {} THEN Len(messages) + 1
                ELSE CHOOSE q \in later : \A r \in later : q <= r
    IN  next - p - 1

\* C14: the Conversation is the user message followed by the turns: each
\* assistant message is followed by the tool-role messages of its executed
\* invocations, in the order it lists them, each tagged with the invocation's
\* call identifier and carrying the result of the dispatch made for it; all
\* invocations of an earlier turn are executed, and of the latest turn exactly
\* those the for loop has passed.
C14_TurnExecutedInListedOrder ==
    /\ messages[1].role = "user"
    /\ \A p \in 2..Len(messages) : messages[p].role \in {"assistant", "tool"}
    /\ \A p \in AssistantPositions :
          LET listed == messages[p].tool_calls
              executed == ExecutedAfter(p)
          IN  /\ executed <= Len(listed)
              /\ \A k \in 1..executed :
                    /\ messages[p + k].role = "tool"
                    /\ messages[p + k].tool_call_id = listed[k].id
              /\ IF \E q \in AssistantPositions : q > p
                 THEN executed = Len(listed)
                 ELSE /\ executed = Len(listed) - Len(tool_calls)
                      /\ tool_calls = SubSeq(listed, executed + 1, Len(listed))
    /\ \A k \in DOMAIN dispatched :
          /\ SelectSeq(messages, IsTool)[k].tool_call_id = dispatched[k].id
          /\ SelectSeq(messages, IsTool)[k].content = dispatched[k].response
          /\ \E c \in RequestedCalls :
                c.id = dispatched[k].id /\ c.function.name = dispatched[k].name

\* a turn of two different tools, both executed, then a further turn
C14_Witness ==
    /\ pc = "returned"
    /\ Len(messages) >= 6
    /\ messages[2].role = "assistant"
    /\ Len(messages[2].tool_calls) = 2
    /\ messages[2].tool_calls[1].function.name = Visualization
    /\ messages[2].tool_calls[2].function.name = Research
    /\ messages[3].role = "tool"
    /\ messages[4].role = "tool"
    /\ messages[3].tool_call_id = messages[2].tool_calls[1].id
    /\ messages[4].tool_call_id = messages[2].tool_calls[2].id
    /\ messages[3].content # messages[4].content
    /\ messages[5].role = "assistant"

UserMessage == [role |-> "user", content |-> user_prompt]

\* C15: the Conversation starts as the single user message of the prompt and
\* every step leaves it a prefix of what it becomes; every model request
\* carries the Conversation as it is at that moment, and that is a proper
\* extension of what the previous request of the run carried.
C15_ConversationAppendOnly ==
    [][/\ messages[1] = UserMessage
       /\ IsPrefix(messages, messages')
       /\ requests = << >> => messages = <<UserMessage>>
       /\ Len(requests') = Len(requests) + 1 =>
             /\ requests'[Len(requests')].messages = messages
             /\ requests # << >> =>
                   IsProperPrefix(requests[Len(requests)].messages,
                                  requests'[Len(requests')].messages)
      ]_vars

\* four requests, each carrying more than the one before
C15_Witness ==
    /\ Len(requests) = 4
    /\ requests[1].messages = <<UserMessage>>
    /\ \A k \in 1..3 : IsProperPrefix(requests[k].messages, requests[k + 1].messages)
    /\ requests[4].messages = messages

\* the argument object the model sent for the call with identifier id
RequestedArguments(id) ==
    json_loads((CHOOSE c \in RequestedCalls : c.id = id).function.arguments)

\* C16 as stated: no invocation of a registered tool whose decoded argument
\* object misses a declared parameter or carries an undeclared key completes;
\* the run fails on it.
C16_AnyMismatchIsFatal ==
    \A k \in DOMAIN dispatched :
        DOMAIN RequestedArguments(dispatched[k].id) = Parameters(dispatched[k].name)

\* the invocation the for loop comes to is of a registered tool, with a
\* decodable argument text
RegisteredCallNext ==
    /\ pc = "dispatch"
    /\ tool_calls # << >>
    /\ JSONDecodable(Head(tool_calls).function.arguments)
    /\ Head(tool_calls).function.name \in {Research, Visualization}

\* C16 amended: an invocation of a registered tool fails the run with a
\* TypeError exactly when its decoded argument object carries a key that is
\* not a parameter of the tool; a declared parameter the model left out is
\* filled in by the injection and the invocation completes.
C16_OnlyExtraKeyIsFatal ==
    [][RegisteredCallNext =>
        LET tool_call == Head(tool_calls)
            keys == DOMAIN json_loads(tool_call.function.arguments)
        IN  IF keys \subseteq Parameters(tool_call.function.name)
            THEN /\ Len(dispatched') = Len(dispatched) + 1
                 /\ raised' = None
                 /\ pc' # "failed"
            ELSE /\ pc' = "failed"
                 /\ raised' = "TypeError"
                 /\ dispatched' = dispatched
                 /\ returned' = << >>
      ]_vars

\* a run that completed an invocation sent without any argument and then
\* failed on one with undeclared keys
C16_Witness ==
    /\ pc = "failed"
    /\ raised = "TypeError"
    /\ ~(DOMAIN json_loads(Head(tool_calls).function.arguments)
            \subseteq Parameters(Head(tool_calls).function.name))
    /\ \E k \in DOMAIN dispatched :
          /\ dispatched[k].name = Research
          /\ RequestedArguments(dispatched[k].id) = EmptyDict

\* the three ends of a run
AnsweredInLoop ==
    /\ pc = "returned"
    /\ raised = None
    /\ Len(returned) = 2
    /\ LastRequest.tools
    /\ LastRequest.response.tool_calls = << >>
    /\ i < 3

ForcedFinalAnswer ==
    /\ pc = "returned"
    /\ raised = None
    /\ Len(returned) = 2
    /\ ~LastRequest.tools
    /\ i = 3

FatalFailure ==
    /\ pc = "failed"
    /\ raised # None
    /\ returned = << >>

\* a measure of the work a run has left: the iterations not yet finished
\* first, then the request before the dispatches of an iteration, then the
\* invocations not yet iterated
Rank ==
    IF Ended THEN 0
    ELSE IF pc = "final_request" THEN 1
    ELSE (MaxIterations - i) * (MaxToolCalls + 2)
         + (IF pc = "request" THEN MaxToolCalls + 1 ELSE Len(tool_calls))

\* C17: every run ends.  Every step a run takes strictly lowers a measure
\* that is a natural number, so no run goes on forever; a run that has not
\* ended can always take a step, so none is stuck short of an end; and a run
\* that has ended is in exactly one of the three ends: an answer returned
\* from the loop, the forced final answer after the three iterations, or a
\* fatal failure.
C17_RunTerminates ==
    /\ [](/\ Rank \in Nat
          /\ ~Ended => ENABLED Next
          /\ Ended => \/ (AnsweredInLoop /\ ~ForcedFinalAnswer /\ ~FatalFailure)
                      \/ (ForcedFinalAnswer /\ ~AnsweredInLoop /\ ~FatalFailure)
                      \/ (FatalFailure /\ ~AnsweredInLoop /\ ~ForcedFinalAnswer))
    /\ [][Rank' < Rank]_vars

\* the forced final answer after three rounds of tool calls
C17_Witness ==
    /\ Ended
    /\ ForcedFinalAnswer
    /\ Len(dispatched) >= 3

\* the text_record of the latest research dispatch before the k-th dispatch,
\* the empty text if there is none
RecordBefore(k) ==
    LET earlier == {j \in 1..(k - 1) : dispatched[j].name = Research}
    IN  IF earlier = {} THEN << >>
        ELSE json_loads(dispatched[CHOOSE j \in earlier :
                                      \A n \in earlier : n <= j].response)["text_record"]

\* C18: every visualization dispatch is given the text_record of the latest
\* research dispatch completed before it, in the same turn or an earlier one;
\* with none before it, it is given the empty text and returns status=error,
\* whatever a research call later in the turn returns.
C18_VisualizationSeesRecordAtDispatch ==
    \A k \in DOMAIN dispatched :
        dispatched[k].name = Visualization =>
            /\ dispatched[k].args["data"] = RecordBefore(k)
            /\ (\A j \in 1..(k - 1) : dispatched[j].name # Research) =>
                  /\ dispatched[k].args["data"] = << >>
                  /\ Status(dispatched[k].response) = "error"

\* one turn listing visualization, research, visualization: the first gets
\* the empty text and fails although the research call after it succeeds, the
\* second gets that call's text_record and succeeds
C18_Witness ==
    /\ Len(dispatched) >= 3
    /\ Len(requests) = 1
    /\ dispatched[1].name = Visualization
    /\ dispatched[2].name = Research
    /\ dispatched[3].name = Visualization
    /\ dispatched[1].args["data"] = << >>
    /\ Status(dispatched[1].response) = "error"
    /\ Status(dispatched[2].response) = "success"
    /\ dispatched[3].args["data"] = TextRecord
    /\ Status(dispatched[3].response) = "success"

====
